---- MODULE Spec2Model ----
(***************************************************************************)
(* State-transition engine (genvm VM) of go-spacemesh: batch Apply,        *)
(* two-step Validation (Request.Parse / Request.Verify) and the parser.    *)
(***************************************************************************)
EXTENDS Integers, Sequences, FiniteSets, TLC

VARIABLES
    store,      \* vm.db: the persisted Account Store, address -> account
    pc,         \* position of the one in-flight VM.Apply call
    lid,        \* Apply's layer argument
    txs,        \* Apply's batch argument (raw transactions)
    idx,        \* loop index of `for _, tx := range txs`
    skipped,    \* Apply's local `skipped`
    staged,     \* Apply's local `ss`: pending account mutations
    txw,        \* writes buffered in the store transaction `tx`
    err,        \* error result of the Apply call
    ret,        \* list returned by the Apply call
    storeBefore,\* the persisted store when the Apply call started
    outcomes,   \* per processed transaction: what the loop body did (the log)
    layers,     \* number of Apply calls started so far
    reqs,       \* Validation requests: raw, decoder position, ctx, last results
                \* (the error of Parse, what it wraps, the result of Verify)
    panicked,   \* "none", or the panic that ended the process
    genesis,    \* ApplyGenesis's argument (a list of accounts with addresses)
    gens,       \* number of ApplyGenesis calls started so far
    closed,     \* c.closed of the FormattedConnection
    wmtx,       \* c.wmtx: the goroutine holding it, or Free
    closeCalls, \* the calls of c.close.Close() so far: by whom, with what result
    published,  \* the publishClosingConnection calls so far: by whom
    sendQueue,  \* c.sendQueue: the queued messages, by their Send caller
    res,        \* per Send caller: its result channel `res` (capacity 1)
    cpc,        \* per goroutine of the connection: where it stands
    cerr,       \* per goroutine: what its call of closeUnlocked returned
    werr,       \* per goroutine: `err` of its SendNow call, or the error
                \* setupIncoming or the read loop is about to return
    cret,       \* per goroutine: what its call returned
    wrote,      \* per goroutine: its WriteRecord calls, each with c.closed then
    taken,      \* sendRoutine's `b`: the Send caller whose message it holds
    session,    \* c.session: Nil or the session the connection was made with
    handled     \* the HandlePreSessionIncomingMessage calls so far: the message

vmVars == <<store, pc, lid, txs, idx, skipped, staged, txw, err, ret,
            storeBefore, outcomes, layers, reqs, panicked>>

genVars == <<genesis, gens>>

\* what only setupIncoming reads or changes
setupVars == <<session, handled>>

connVars == <<closed, wmtx, closeCalls, published, sendQueue, res,
              cpc, cerr, werr, cret, wrote, taken, setupVars>>

\* what the batch path and the validation path leave alone
otherVars == <<genVars, connVars>>

vars == <<vmVars, genVars, connVars>>

applyVars == <<pc, lid, txs, idx, skipped, staged, txw, err, ret,
               storeBefore, outcomes, layers>>

-----------------------------------------------------------------------------
(* Bounds *)

MaxBatch == 2
MaxLayer == 1
MaxReq == 2
MaxGens == 2
MaxSenders == 2
MaxClosers == 1

-----------------------------------------------------------------------------
(* Addresses, accounts, templates *)

A == 1
B == 2
Addr == {A, B}

NoTemplate == 0
WalletTemplate == 7
UnknownTemplate == 9

\* the texts of the sentinel errors of package core
ErrMalformed == "malformed tx"
ErrSpawned == "account already spawned"
ErrNotSpawned == "account is not spawned"

\* registry.Get: the handler registered for a template address, or nil
Nil == "nil"
WalletHandler == "wallet"
registryGet(template) == IF template = WalletTemplate THEN WalletHandler ELSE Nil

Account(balance, nonce, template, state, layer) ==
    [balance |-> balance, nonce |-> nonce, template |-> template,
     state |-> state, layer |-> layer]

\* Account.NextNonce: the nonce the next transaction of the account must carry
NextNonce(account) == account.nonce

-----------------------------------------------------------------------------
(* Raw transactions: one sequence element per encoded field.               *)
(*   version, principal, method, [template if method = 0],                 *)
(*   nonce, arguments (spawn: public key; spend: to, amount), signature    *)

SpendMethod == 1

SpawnTx(principal, template, nonce, key, sig) ==
    <<0, principal, 0, template, nonce, key, sig>>
SpendTx(principal, nonce, to, amount, sig) ==
    <<0, principal, SpendMethod, nonce, to, amount, sig>>

TxSet ==
    { SpendTx(A, 0, B, 1, A),               \* A pays B 1, nonce 0
      SpendTx(A, 1, B, 1, A),               \* A pays B 1, nonce 1
      SpendTx(A, 2, B, 1, A),               \* A pays B 1, nonce 2
      SpendTx(A, 0, B, 3, A),               \* more than A owns
      SpawnTx(B, WalletTemplate, 0, B, B),  \* B spawns a wallet
      SpawnTx(B, UnknownTemplate, 0, B, B), \* template not in the registry
      SpendTx(B, 1, A, 1, B),               \* B pays A 1, nonce 1
      <<1, A, SpendMethod, 0, B, 1, A>>,    \* unsupported version
      <<0, A, SpendMethod>> }               \* truncated after the selector

\* raw bytes offered to Validation
ValSet ==
    { SpendTx(A, 0, B, 1, A),               \* parses, verifies
      SpendTx(A, 0, B, 1, 0),               \* parses, bad signature
      SpendTx(B, 1, A, 1, B),               \* B is not spawned yet
      SpawnTx(B, UnknownTemplate, 0, B, B), \* template not in the registry
      <<1, 0, A, SpendMethod, 0, B, 1, A>> }\* unsupported version, then a spend

Batches == UNION { [1..n -> TxSet] : n \in 0..MaxBatch }

-----------------------------------------------------------------------------
(* scale decoder over a raw transaction *)

\* scale.DecodeCompact8 / Address.DecodeScale: next field, or EOF
Decode(raw, pos) ==
    IF pos > Len(raw)
    THEN [ok |-> FALSE, val |-> 0, pos |-> pos]
    ELSE [ok |-> TRUE, val |-> raw[pos], pos |-> pos + 1]

-----------------------------------------------------------------------------
(* Account Store and Staged State *)

EmptyAccount == Account(0, 0, NoTemplate, 0, 0)

\* accounts.Latest: the latest record of an address, empty when never written
Latest(db, address) == IF address \in DOMAIN db THEN db[address] ELSE EmptyAccount

\* core.NewStagedState: no pending mutation
NewStagedState == [a \in {} |-> EmptyAccount]

\* StagedState.Get: the pending mutation of the address, else the store's record
StagedGet(ss, db, address) ==
    IF address \in DOMAIN ss THEN ss[address] ELSE Latest(db, address)

\* StagedState.Update: record a pending mutation
StagedUpdate(ss, address, account) ==
    [a \in DOMAIN ss \cup {address} |-> IF a = address THEN account ELSE ss[a]]

-----------------------------------------------------------------------------
(* Wallet handler and template *)

NilCtx == [nil |-> TRUE]
NilHeader == [nil |-> TRUE]

\* Handler.Parse: nonce, then the method's arguments
HandlerParse(method, raw, pos) ==
    LET n  == Decode(raw, pos)
        a1 == Decode(raw, n.pos)
        a2 == Decode(raw, a1.pos)
    IN  IF ~n.ok THEN [ok |-> FALSE, pos |-> n.pos, nonce |-> 0, args |-> <<>>]
        ELSE IF method = 0
        THEN [ok |-> a1.ok, pos |-> a1.pos, nonce |-> n.val,
              args |-> IF a1.ok THEN <<a1.val>> ELSE <<>>]
        ELSE IF method = SpendMethod
        THEN [ok |-> a1.ok /\ a2.ok, pos |-> a2.pos, nonce |-> n.val,
              args |-> IF a1.ok /\ a2.ok THEN <<a1.val, a2.val>> ELSE <<>>]
        ELSE [ok |-> FALSE, pos |-> n.pos, nonce |-> n.val, args |-> <<>>]

\* Handler.Init: the template instance, from the spawn arguments or the state blob
HandlerInit(method, args, state) ==
    IF method = 0 THEN [ok |-> TRUE, key |-> args[1]]
    ELSE IF state = 0 THEN [ok |-> FALSE, key |-> 0]
    ELSE [ok |-> TRUE, key |-> state]

\* Template.MaxSpend
MaxSpend(method, args) == IF method = SpendMethod THEN args[2] ELSE 0

\* Template.Verify: the signature (last field of raw) is the template's key
TemplateVerify(ctx, raw) == Len(raw) > 0 /\ raw[Len(raw)] = ctx.template.key

-----------------------------------------------------------------------------
(* parse *)

ParseError(msg, class, pos) ==
    [kind |-> "err", msg |-> msg, class |-> class, pos |-> pos,
     header |-> NilHeader, ctx |-> NilCtx]

ParsePanic(pos) ==
    [kind |-> "panic", msg |-> "nil pointer dereference", class |-> "panic",
     pos |-> pos, header |-> NilHeader, ctx |-> NilCtx]

\* (mutant) parse with the nil check of the template on the wrong branch: it
\* stops a spawn without a template, not a method of an unspawned account
parseSpawnChecked(view, loadFails, raw, pos) ==
    LET version   == Decode(raw, pos)
        principal == Decode(raw, version.pos)
        method    == Decode(raw, principal.pos)
        account   == Latest(view, principal.val)
        decoded   == Decode(raw, method.pos)
        template  == IF method.val = 0 THEN decoded.val ELSE account.template
        bodyPos   == IF method.val = 0 THEN decoded.pos ELSE method.pos
        handler   == registryGet(template)
        hp        == HandlerParse(method.val, raw, bodyPos)
        init      == HandlerInit(method.val, hp.args, account.state)
        header    == [principal |-> principal.val, method |-> method.val,
                      nonce |-> hp.nonce, maxspend |-> MaxSpend(method.val, hp.args)]
    IN  IF ~version.ok THEN ParseError("EOF", "eof", version.pos)
        ELSE IF version.val # 0
        THEN ParseError("unsupported version", "unclassified", version.pos)
        ELSE IF ~principal.ok
        THEN ParseError("failed to decode principal", "eof", principal.pos)
        ELSE IF ~method.ok
        THEN ParseError("failed to decode method selector", "eof", method.pos)
        ELSE IF loadFails
        THEN ParseError("failed to load state for principal", "load", method.pos)
        ELSE IF method.val = 0 /\ ~decoded.ok
        THEN ParseError("failed to decode template address", "eof", decoded.pos)
        ELSE IF method.val = 0 /\ template = NoTemplate
        THEN ParseError("account is not spawned", "unclassified", bodyPos)
        ELSE IF handler = Nil
        THEN IF account.template = NoTemplate
             THEN ParsePanic(bodyPos)
             ELSE ParseError("unknown template", "unclassified", bodyPos)
        ELSE IF ~hp.ok THEN ParseError("handler parse", "malformed", hp.pos)
        ELSE IF ~init.ok THEN ParseError("handler init", "malformed", hp.pos)
        ELSE [kind |-> "ok", msg |-> "", class |-> "none", pos |-> hp.pos,
              header |-> header,
              ctx |-> [account |-> account, principal |-> principal.val,
                       method |-> method.val, handler |-> handler,
                       header |-> header, args |-> hp.args,
                       template |-> init, changed |-> NewStagedState]]

\* parse(logger, loader, decoder); `view` is what loader.Get returns per address,
\* `loadFails` whether loader.Get returns an error
parse(view, loadFails, raw, pos) ==
    LET version   == Decode(raw, pos)
        principal == Decode(raw, version.pos)
        method    == Decode(raw, principal.pos)
        account   == Latest(view, principal.val)
        decoded   == Decode(raw, method.pos)
        template  == IF method.val = 0 THEN decoded.val ELSE account.template
        bodyPos   == IF method.val = 0 THEN decoded.pos ELSE method.pos
        handler   == registryGet(template)
        hp        == HandlerParse(method.val, raw, bodyPos)
        init      == HandlerInit(method.val, hp.args, account.state)
        header    == [principal |-> principal.val, method |-> method.val,
                      nonce |-> hp.nonce, maxspend |-> MaxSpend(method.val, hp.args)]
    IN  IF ~version.ok THEN ParseError("EOF", "eof", version.pos)
        ELSE IF version.val # 0
        THEN ParseError("unsupported version", "unclassified", version.pos)
        ELSE IF ~principal.ok
        THEN ParseError("failed to decode principal", "eof", principal.pos)
        ELSE IF ~method.ok
        THEN ParseError("failed to decode method selector", "eof", method.pos)
        ELSE IF loadFails
        THEN ParseError("failed to load state for principal", "load", method.pos)
        ELSE IF method.val = 0 /\ ~decoded.ok
        THEN ParseError("failed to decode template address", "eof", decoded.pos)
        ELSE IF method.val # 0 /\ template = NoTemplate
        THEN ParseError("account is not spawned", "unclassified", bodyPos)
        ELSE IF handler = Nil
        THEN IF account.template = NoTemplate
             THEN ParsePanic(bodyPos)
             ELSE ParseError("unknown template", "unclassified", bodyPos)
        ELSE IF ~hp.ok THEN ParseError("handler parse", "malformed", hp.pos)
        ELSE IF ~init.ok THEN ParseError("handler init", "malformed", hp.pos)
        ELSE [kind |-> "ok", msg |-> "", class |-> "none", pos |-> hp.pos,
              header |-> header,
              ctx |-> [account |-> account, principal |-> principal.val,
                       method |-> method.val, handler |-> handler,
                       header |-> header, args |-> hp.args,
                       template |-> init, changed |-> NewStagedState]]


-----------------------------------------------------------------------------
(* Execution Context *)

\* Handler.Exec of the wallet: spawn (method 0) or spend; `view` is ctx.Loader,
\* `loadFails` whether loading the recipient fails
Exec(ctx, view, loadFails) ==
    IF ctx.method = 0
    THEN IF ctx.account.template # NoTemplate
         THEN [err |-> "account already spawned", ctx |-> ctx]
         ELSE [err |-> "none",
               ctx |-> [ctx EXCEPT !.account.template = WalletTemplate,
                                   !.account.state = ctx.args[1]]]
    ELSE LET to     == ctx.args[1]
             amount == ctx.args[2]
             target == Latest(view, to)
         IN  IF amount > ctx.account.balance
             THEN [err |-> "no balance", ctx |-> ctx]
             ELSE IF loadFails
             THEN [err |-> "internal", ctx |-> ctx]
             ELSE [err |-> "none",
                   ctx |-> [ctx EXCEPT
                       !.account.balance = @ - amount,
                       !.changed = StagedUpdate(@, to,
                           [target EXCEPT !.balance = @ + amount])]]

\* Context.Apply: the transaction is consumed; its nonce and the accounts it
\* changed go to the updater
ContextApply(ctx, ss) ==
    LET principal == [ctx.account EXCEPT !.nonce = ctx.header.nonce + 1]
        own       == StagedUpdate(ss, ctx.principal, principal)
    IN  [a \in DOMAIN own \cup DOMAIN ctx.changed |->
            IF a \in DOMAIN ctx.changed THEN ctx.changed[a] ELSE own[a]]

-----------------------------------------------------------------------------
(* VM.Apply *)

\* (mutant) the loader reads the store and misses the staged mutations
LoaderViewStore(ss, db) == [a \in Addr |-> Latest(db, a)]

\* the loader handed to parse: the batch's Staged State over the store
LoaderView(ss, db) == [a \in Addr |-> StagedGet(ss, db, a)]

\* (mutant) no nonce check
NonceUnchecked(ctx) == TRUE

\* (mutant) the nonce check lets any nonce not below the next one through
NonceAtLeast(ctx) == ctx.header.nonce >= NextNonce(ctx.account)

\* the nonce check of the loop body
NonceMatches(ctx) == NextNonce(ctx.account) = ctx.header.nonce

\* what one iteration logs: the branch taken, the error, and the nonces compared
Outcome(kind, msg, nonce, next) ==
    [kind |-> kind, msg |-> msg, nonce |-> nonce, next |-> next]

LoadFailure == "failed to load state for principal"

\* (mutant) a parse error aborts the batch
ParseFailedAborts(ss, p) ==
    [next |-> "return", skip |-> FALSE, ss |-> ss,
     out |-> [kind |-> "parse_err", msg |-> p.msg, nonce |-> -1, next |-> -1]]

\* parse returned an error: warn, skip, continue
ParseFailed(ss, p) ==
    [next |-> "continue", skip |-> TRUE, ss |-> ss,
     out |-> Outcome("parse_err", p.msg, -1, -1)]

\* the nonce check failed: warn, skip, continue
NonceFailed(ss, p) ==
    [next |-> "continue", skip |-> TRUE, ss |-> ss,
     out |-> Outcome("nonce", "", p.ctx.header.nonce, NextNonce(p.ctx.account))]

\* (mutant) a failed execution puts the transaction in the skipped list
ExecutedSkips(ss, p, x, applyFails) ==
    LET nonce == p.ctx.header.nonce
        next  == NextNonce(p.ctx.account)
    IN  IF x.err = "internal"
        THEN [next |-> "return", skip |-> FALSE, ss |-> ss,
              out |-> Outcome("exec_internal", x.err, nonce, next)]
        ELSE IF applyFails
        THEN [next |-> "return", skip |-> FALSE, ss |-> ss,
              out |-> Outcome("apply_err", x.err, nonce, next)]
        ELSE [next |-> "continue", skip |-> x.err # "none",
              ss |-> ContextApply(x.ctx, ss),
              out |-> Outcome(IF x.err = "none" THEN "exec_ok" ELSE "exec_err",
                              x.err, nonce, next)]

\* (mutant) a failed execution continues without ctx.Apply
ExecutedDiscards(ss, p, x, applyFails) ==
    LET nonce == p.ctx.header.nonce
        next  == NextNonce(p.ctx.account)
    IN  IF x.err = "internal"
        THEN [next |-> "return", skip |-> FALSE, ss |-> ss,
              out |-> Outcome("exec_internal", x.err, nonce, next)]
        ELSE IF x.err # "none"
        THEN [next |-> "continue", skip |-> FALSE, ss |-> ss,
              out |-> Outcome("exec_err", x.err, nonce, next)]
        ELSE IF applyFails
        THEN [next |-> "return", skip |-> FALSE, ss |-> ss,
              out |-> Outcome("apply_err", x.err, nonce, next)]
        ELSE [next |-> "continue", skip |-> FALSE, ss |-> ContextApply(x.ctx, ss),
              out |-> Outcome("exec_ok", x.err, nonce, next)]

\* Exec returned x: an internal error aborts the batch, anything else goes on
\* to ctx.Apply(ss), whose failure aborts the batch too
Executed(ss, p, x, applyFails) ==
    LET nonce == p.ctx.header.nonce
        next  == NextNonce(p.ctx.account)
    IN  IF x.err = "internal"
        THEN [next |-> "return", skip |-> FALSE, ss |-> ss,
              out |-> Outcome("exec_internal", x.err, nonce, next)]
        ELSE IF applyFails
        THEN [next |-> "return", skip |-> FALSE, ss |-> ss,
              out |-> Outcome("apply_err", x.err, nonce, next)]
        ELSE [next |-> "continue", skip |-> FALSE, ss |-> ContextApply(x.ctx, ss),
              out |-> Outcome(IF x.err = "none" THEN "exec_ok" ELSE "exec_err",
                              x.err, nonce, next)]

\* one iteration of `for _, tx := range txs`
LoopBody(ss, db, tx, loadFails, execLoadFails, applyFails) ==
    LET view == LoaderView(ss, db)
        p    == parse(view, loadFails, tx, 1)
    IN  IF p.kind = "panic"
        THEN [next |-> "panic", skip |-> FALSE, ss |-> ss,
              out |-> Outcome("panic", p.msg, -1, -1)]
        ELSE IF p.kind = "err" THEN ParseFailed(ss, p)
        ELSE IF ~NonceMatches(p.ctx) THEN NonceFailed(ss, p)
        ELSE Executed(ss, p, Exec(p.ctx, view, execLoadFails), applyFails)

\* vm.db.Tx, the locals of Apply
ApplyBegin(batches, maxLayer) ==
    /\ pc = "idle" /\ panicked = "none"
    /\ layers < maxLayer
    /\ \E batch \in batches, txFails \in BOOLEAN :
        /\ lid' = layers + 1
        /\ layers' = layers + 1
        /\ txs' = batch
        /\ storeBefore' = store
        /\ IF txFails
           THEN pc' = "done" /\ err' = "tx"
           ELSE pc' = "loop" /\ err' = "none"
    /\ idx' = 1 /\ skipped' = <<>> /\ staged' = NewStagedState
    /\ txw' = NewStagedState /\ ret' = <<>> /\ outcomes' = <<>>
    /\ UNCHANGED <<otherVars, store, reqs, panicked>>

\* the loop body for txs[idx]
ApplyTx ==
    /\ pc = "loop" /\ panicked = "none" /\ idx <= Len(txs)
    /\ \E loadFails, execLoadFails, applyFails \in BOOLEAN :
        LET r == LoopBody(staged, store, txs[idx], loadFails, execLoadFails, applyFails)
        IN  /\ outcomes' = Append(outcomes, r.out)
            /\ skipped' = IF r.skip THEN Append(skipped, txs[idx]) ELSE skipped
            /\ staged' = r.ss
            /\ idx' = idx + 1
            /\ IF r.next = "panic"
               THEN panicked' = r.out.msg /\ pc' = "panic" /\ err' = err
               ELSE IF r.next = "return"
               THEN panicked' = panicked /\ pc' = "done" /\ err' = "internal"
               ELSE panicked' = panicked /\ pc' = pc /\ err' = err
    /\ UNCHANGED <<otherVars, store, lid, txs, txw, ret, storeBefore, layers, reqs>>

\* the loop is over
ApplyLoopEnd ==
    /\ pc = "loop" /\ panicked = "none" /\ idx > Len(txs)
    /\ pc' = "flush"
    /\ UNCHANGED <<otherVars, store, lid, txs, idx, skipped, staged, txw, err, ret,
                   storeBefore, outcomes, layers, reqs, panicked>>

\* (mutant) the flush writes through to the store instead of the transaction
ApplyFlushDirect ==
    /\ pc = "flush" /\ panicked = "none"
    /\ DOMAIN staged # DOMAIN txw
    /\ \E a \in DOMAIN staged \ DOMAIN txw, updateFails \in BOOLEAN :
        IF updateFails
        THEN pc' = "done" /\ err' = "internal" /\ txw' = NewStagedState
             /\ store' = store
        ELSE /\ txw' = StagedUpdate(txw, a, [staged[a] EXCEPT !.layer = lid])
             /\ store' = [store EXCEPT ![a] = [staged[a] EXCEPT !.layer = lid]]
             /\ pc' = pc /\ err' = err
    /\ UNCHANGED <<otherVars, lid, txs, idx, skipped, staged, ret,
                   storeBefore, outcomes, layers, reqs, panicked>>

\* (mutant) the iteration stops after the first changed account: the others
\* are never written
ApplyFlushFirstOnly ==
    /\ pc = "flush" /\ panicked = "none"
    /\ DOMAIN staged # DOMAIN txw
    /\ \E a \in DOMAIN staged \ DOMAIN txw, updateFails \in BOOLEAN :
        IF updateFails
        THEN pc' = "done" /\ err' = "internal" /\ txw' = NewStagedState
        ELSE /\ txw' = [b \in DOMAIN staged |->
                          IF b = a THEN [staged[a] EXCEPT !.layer = lid]
                                   ELSE store[b]]
             /\ pc' = pc /\ err' = err
    /\ UNCHANGED <<otherVars, store, lid, txs, idx, skipped, staged, ret,
                   storeBefore, outcomes, layers, reqs, panicked>>

\* (mutant) the changed account is written without `account.Layer = lid`
ApplyFlushUnstamped ==
    /\ pc = "flush" /\ panicked = "none"
    /\ DOMAIN staged # DOMAIN txw
    /\ \E a \in DOMAIN staged \ DOMAIN txw, updateFails \in BOOLEAN :
        IF updateFails
        THEN pc' = "done" /\ err' = "internal" /\ txw' = NewStagedState
        ELSE /\ txw' = StagedUpdate(txw, a, staged[a])
             /\ pc' = pc /\ err' = err
    /\ UNCHANGED <<otherVars, store, lid, txs, idx, skipped, staged, ret,
                   storeBefore, outcomes, layers, reqs, panicked>>

\* ss.IterateChanged: stamp one changed account and accounts.Update(tx, account)
ApplyFlush ==
    /\ pc = "flush" /\ panicked = "none"
    /\ DOMAIN staged # DOMAIN txw
    /\ \E a \in DOMAIN staged \ DOMAIN txw, updateFails \in BOOLEAN :
        IF updateFails
        THEN pc' = "done" /\ err' = "internal" /\ txw' = NewStagedState
        ELSE /\ txw' = StagedUpdate(txw, a, [staged[a] EXCEPT !.layer = lid])
             /\ pc' = pc /\ err' = err
    /\ UNCHANGED <<otherVars, store, lid, txs, idx, skipped, staged, ret,
                   storeBefore, outcomes, layers, reqs, panicked>>

\* tx.Commit and the return of skipped
ApplyCommit ==
    /\ pc = "flush" /\ panicked = "none"
    /\ DOMAIN staged = DOMAIN txw
    /\ \E commitFails \in BOOLEAN :
        IF commitFails
        THEN /\ err' = "internal" /\ ret' = ret /\ store' = store
        ELSE /\ err' = err /\ ret' = skipped
             /\ store' = [a \in Addr |-> StagedGet(txw, store, a)]
    /\ pc' = "done" /\ txw' = NewStagedState
    /\ UNCHANGED <<otherVars, lid, txs, idx, skipped, staged,
                   storeBefore, outcomes, layers, reqs, panicked>>

\* the caller takes the result; the locals of the call are gone
ApplyReturn ==
    /\ pc = "done" /\ panicked = "none"
    /\ pc' = "idle"
    /\ lid' = 0 /\ txs' = <<>> /\ idx' = 1 /\ skipped' = <<>>
    /\ staged' = NewStagedState /\ txw' = NewStagedState
    /\ err' = "none" /\ ret' = <<>> /\ storeBefore' = store /\ outcomes' = <<>>
    /\ UNCHANGED <<otherVars, store, layers, reqs, panicked>>

-----------------------------------------------------------------------------
(* The goroutines that use one FormattedConnection *)

Free == "free"

\* capacity of c.sendQueue
QueueCap == 100

ErrAlreadyClosed == "connection is already closed"
ErrConnectionClosed == "connection was closed"
WriteError == "write error"
CloseError == "close error"

\* callers of Send, of Close, one caller of SendNow, one of Closed, and the
\* two goroutines of beginEventProcessing
Senders == { <<"Send", i>> : i \in 1..MaxSenders }
Closers == { <<"Close", i>> : i \in 1..MaxClosers }
NowCaller == <<"SendNow", 1>>
Observer == <<"Closed", 1>>
Routine == <<"sendRoutine", 0>>
Reader == <<"beginEventProcessing", 0>>
Setup == <<"setupIncoming", 0>>
Procs == Senders \cup Closers \cup {NowCaller, Observer, Routine, Reader, Setup}

\* c.session when a session was given to newConnection
Session == "session"

-----------------------------------------------------------------------------
(* Specification of the batch path *)

\* ledgers at start: A holds a wallet and B is not spawned (A's next nonce 0
\* or 1), or B spawned its wallet too and A paid B
InitLedgers ==
    { [a \in Addr |-> IF a = A THEN Account(2, n, WalletTemplate, A, 0)
                               ELSE Account(1, 0, NoTemplate, 0, 0)] : n \in 0..1 }
    \cup
    { [a \in Addr |-> IF a = A THEN Account(1, 1, WalletTemplate, A, 0)
                               ELSE Account(2, 1, WalletTemplate, B, 0)] }

\* newConnection(..., session, ...): nothing closed, nothing queued, no
\* goroutine started
newConnection(sess) ==
    /\ closed = FALSE /\ wmtx = Free /\ closeCalls = <<>> /\ published = <<>>
    /\ sendQueue = <<>>
    /\ res = [s \in Senders |-> <<>>]
    /\ cpc = [p \in Procs |-> "idle"]
    /\ cerr = [p \in Procs |-> Nil]
    /\ werr = [p \in Procs |-> Nil]
    /\ cret = [p \in Procs |-> Nil]
    /\ wrote = [p \in Procs |-> <<>>]
    /\ taken = Nil
    /\ session = sess /\ handled = <<>>

\* a connection that has its session
ConnInit == newConnection(Session)

Init ==
    /\ store \in InitLedgers
    /\ pc = "idle" /\ lid = 0 /\ txs = <<>> /\ idx = 1 /\ skipped = <<>>
    /\ staged = NewStagedState /\ txw = NewStagedState
    /\ err = "none" /\ ret = <<>> /\ storeBefore = store /\ outcomes = <<>>
    /\ layers = 0 /\ reqs = <<>> /\ panicked = "none"
    /\ genesis = <<>> /\ gens = 0
    /\ ConnInit

Next ==
    \/ ApplyBegin(Batches, MaxLayer)
    \/ ApplyTx
    \/ ApplyLoopEnd
    \/ ApplyFlush
    \/ ApplyCommit
    \/ ApplyReturn

Spec == Init /\ [][Next]_vars


-----------------------------------------------------------------------------
(* Validation: Request.Parse and Request.Verify *)

VerifyPanic == "Verify should be called after succesfull Parse"

\* VM.Validation: a Request over raw, with its own decoder and no ctx
Validation ==
    /\ panicked = "none"
    /\ Len(reqs) < MaxReq
    /\ \E raw \in ValSet :
        reqs' = Append(reqs, [raw |-> raw, pos |-> 1, ctx |-> NilCtx,
                              parsed |-> "none", class |-> "none",
                              verified |-> "none"])
    /\ UNCHANGED <<otherVars, store, applyVars, panicked>>

\* (mutant) a successful Parse writes the loaded account back to the store
RequestParseWrites ==
    /\ panicked = "none"
    /\ \E r \in DOMAIN reqs, loadFails \in BOOLEAN :
        LET p == parse(LoaderView(NewStagedState, store), loadFails,
                       reqs[r].raw, reqs[r].pos)
        IN  /\ p.kind = "ok"
            /\ p.ctx.principal \in Addr
            /\ panicked' = panicked
            /\ reqs' = [reqs EXCEPT ![r].pos = p.pos, ![r].parsed = "ok",
                                    ![r].class = p.class, ![r].ctx = p.ctx]
            /\ store' = [store EXCEPT ![p.ctx.principal] =
                            [p.ctx.account EXCEPT !.nonce = p.header.nonce + 1]]
    /\ UNCHANGED <<otherVars, applyVars>>

\* Request.Parse: parse over a fresh Staged State of vm.db, from where the
\* Request's decoder stands
RequestParse ==
    /\ panicked = "none"
    /\ \E r \in DOMAIN reqs, loadFails \in BOOLEAN :
        LET p == parse(LoaderView(NewStagedState, store), loadFails,
                       reqs[r].raw, reqs[r].pos)
        IN  IF p.kind = "panic"
            THEN /\ panicked' = p.msg
                 /\ reqs' = [reqs EXCEPT ![r].pos = p.pos]
            ELSE /\ panicked' = panicked
                 /\ reqs' = [reqs EXCEPT
                       ![r].pos = p.pos,
                       ![r].parsed = IF p.kind = "ok" THEN "ok" ELSE p.msg,
                       ![r].class = p.class,
                       ![r].ctx = IF p.kind = "ok" THEN p.ctx ELSE @]
    /\ UNCHANGED <<otherVars, store, applyVars>>

\* (mutant) Verify without the nil check reports false
RequestVerifyUnchecked ==
    /\ panicked = "none"
    /\ \E r \in DOMAIN reqs :
        /\ panicked' = panicked
        /\ reqs' = [reqs EXCEPT ![r].verified =
                       IF reqs[r].ctx # NilCtx
                          /\ TemplateVerify(reqs[r].ctx, reqs[r].raw)
                       THEN "true" ELSE "false"]
    /\ UNCHANGED <<otherVars, store, applyVars>>

\* Request.Verify: panics when r.ctx is nil, else verify(r.ctx, r.raw)
RequestVerify ==
    /\ panicked = "none"
    /\ \E r \in DOMAIN reqs :
        IF reqs[r].ctx = NilCtx
        THEN /\ panicked' = VerifyPanic
             /\ reqs' = reqs
        ELSE /\ panicked' = panicked
             /\ reqs' = [reqs EXCEPT ![r].verified =
                            IF TemplateVerify(reqs[r].ctx, reqs[r].raw)
                            THEN "true" ELSE "false"]
    /\ UNCHANGED <<otherVars, store, applyVars>>

NextVal ==
    \/ Validation
    \/ RequestParse
    \/ RequestVerify

SpecVal == Init /\ [][NextVal]_vars


-----------------------------------------------------------------------------
(* ApplyGenesis *)

\* records a genesis list may give an account: one of them spawned, with a
\* nonce and a layer of its own
GenAccounts ==
    { Account(3, 0, NoTemplate, 0, 0), Account(4, 2, WalletTemplate, B, 1) }

\* genesis lists: accounts with their addresses, no address twice
GenesisLists ==
    { g \in UNION { [1..n -> [address : Addr, account : GenAccounts]] :
                        n \in 0..Cardinality(Addr) } :
        \A i, j \in DOMAIN g : g[i].address = g[j].address => i = j }

\* ApplyGenesis up to `defer tx.Release()`: vm.db.Tx may fail
GenesisBegin ==
    /\ pc = "idle" /\ panicked = "none"
    /\ gens < MaxGens
    /\ \E g \in GenesisLists, txFails \in BOOLEAN :
        /\ genesis' = g
        /\ IF txFails THEN pc' = "gendone" /\ err' = "tx"
                      ELSE pc' = "gen" /\ err' = "none"
    /\ gens' = gens + 1
    /\ idx' = 1 /\ txw' = NewStagedState /\ storeBefore' = store
    /\ UNCHANGED <<store, lid, txs, skipped, staged, ret, outcomes, layers,
                   reqs, panicked, connVars>>

\* (mutant) the genesis record is stamped with layer 0 before it is written
GenesisUpdateStamped ==
    /\ pc = "gen" /\ panicked = "none"
    /\ idx <= Len(genesis)
    /\ \E updateFails \in BOOLEAN :
        IF updateFails
        THEN pc' = "gendone" /\ err' = "inserting genesis account"
             /\ txw' = NewStagedState /\ idx' = idx
        ELSE /\ txw' = StagedUpdate(txw, genesis[idx].address,
                                    [genesis[idx].account EXCEPT !.layer = 0])
             /\ idx' = idx + 1 /\ pc' = pc /\ err' = err
    /\ UNCHANGED <<store, lid, txs, skipped, staged, ret, storeBefore, outcomes,
                   layers, reqs, panicked, genVars, connVars>>

\* (mutant) the genesis record is written to vm.db, not to the transaction
GenesisUpdateDirect ==
    /\ pc = "gen" /\ panicked = "none"
    /\ idx <= Len(genesis)
    /\ \E updateFails \in BOOLEAN :
        IF updateFails
        THEN pc' = "gendone" /\ err' = "inserting genesis account"
             /\ txw' = NewStagedState /\ idx' = idx /\ store' = store
        ELSE /\ txw' = StagedUpdate(txw, genesis[idx].address, genesis[idx].account)
             /\ store' = [store EXCEPT ![genesis[idx].address] = genesis[idx].account]
             /\ idx' = idx + 1 /\ pc' = pc /\ err' = err
    /\ UNCHANGED <<lid, txs, skipped, staged, ret, storeBefore, outcomes,
                   layers, reqs, panicked, genVars, connVars>>

\* one iteration of `for i := range genesis`: accounts.Update(tx, account)
\* writes the record as given; its failure returns, and Release drops tx
GenesisUpdate ==
    /\ pc = "gen" /\ panicked = "none"
    /\ idx <= Len(genesis)
    /\ \E updateFails \in BOOLEAN :
        IF updateFails
        THEN pc' = "gendone" /\ err' = "inserting genesis account"
             /\ txw' = NewStagedState /\ idx' = idx
        ELSE /\ txw' = StagedUpdate(txw, genesis[idx].address, genesis[idx].account)
             /\ idx' = idx + 1 /\ pc' = pc /\ err' = err
    /\ UNCHANGED <<store, lid, txs, skipped, staged, ret, storeBefore, outcomes,
                   layers, reqs, panicked, genVars, connVars>>

\* `return tx.Commit()`: all buffered records reach vm.db, or none
GenesisCommit ==
    /\ pc = "gen" /\ panicked = "none"
    /\ idx > Len(genesis)
    /\ \E commitFails \in BOOLEAN :
        IF commitFails
        THEN err' = "commit" /\ store' = store
        ELSE err' = err /\ store' = [a \in Addr |-> StagedGet(txw, store, a)]
    /\ pc' = "gendone" /\ txw' = NewStagedState
    /\ UNCHANGED <<lid, txs, idx, skipped, staged, ret, storeBefore, outcomes,
                   layers, reqs, panicked, genVars, connVars>>

\* the caller takes the error; the locals of the call are gone
GenesisReturn ==
    /\ pc = "gendone" /\ panicked = "none"
    /\ pc' = "idle" /\ genesis' = <<>> /\ idx' = 1 /\ err' = "none"
    /\ storeBefore' = store
    /\ UNCHANGED <<store, lid, txs, skipped, staged, txw, ret, outcomes, layers,
                   reqs, panicked, gens, connVars>>

NextGen ==
    \/ GenesisBegin
    \/ GenesisUpdate
    \/ GenesisCommit
    \/ GenesisReturn

SpecGen == Init /\ [][NextGen]_vars

-----------------------------------------------------------------------------
(* FormattedConnection: Close, Closed, SendNow, Send, sendRoutine and the    *)
(* read loop of beginEventProcessing, one step per lock, check, call or      *)
(* channel operation                                                         *)

\* (mutant) Close enters closeUnlocked without taking c.wmtx
CloseNoLock ==
    /\ \E p \in Closers \cup {Reader, Setup} :
        /\ cpc[p] = IF p \in Closers THEN "idle" ELSE "Close"
        /\ cpc' = [cpc EXCEPT ![p] = "closeUnlocked"]
    /\ UNCHANGED <<vmVars, genVars, setupVars, closed, wmtx, closeCalls, published,
                   sendQueue, res, cerr, werr, cret, wrote, taken>>

\* Close: c.wmtx.Lock()
CloseLock ==
    /\ wmtx = Free
    /\ \E p \in Closers \cup {Reader, Setup} :
        /\ cpc[p] = IF p \in Closers THEN "idle" ELSE "Close"
        /\ wmtx' = p
        /\ cpc' = [cpc EXCEPT ![p] = "closeUnlocked"]
    /\ UNCHANGED <<vmVars, genVars, setupVars, closed, closeCalls, published,
                   sendQueue, res, cerr, werr, cret, wrote, taken>>

\* closeUnlocked: `if c.closed { return ErrAlreadyClosed }`
closeUnlocked ==
    /\ \E p \in Procs :
        /\ cpc[p] = "closeUnlocked"
        /\ IF closed
           THEN /\ cerr' = [cerr EXCEPT ![p] = ErrAlreadyClosed]
                /\ cpc' = [cpc EXCEPT ![p] = "closeReturn"]
           ELSE /\ cerr' = cerr
                /\ cpc' = [cpc EXCEPT ![p] = "close.Close"]
    /\ UNCHANGED <<vmVars, genVars, setupVars, closed, wmtx, closeCalls, published,
                   sendQueue, res, werr, cret, wrote, taken>>

\* closeUnlocked: `err := c.close.Close(); c.closed = true` and the return of
\* err, which the underlying closer chooses
closeClose ==
    /\ \E p \in Procs, result \in {Nil, CloseError} :
        /\ cpc[p] = "close.Close"
        /\ closeCalls' = Append(closeCalls, [by |-> p, result |-> result])
        /\ closed' = TRUE
        /\ cerr' = [cerr EXCEPT ![p] = result]
        /\ cpc' = [cpc EXCEPT ![p] = "closeReturn"]
    /\ UNCHANGED <<vmVars, genVars, setupVars, wmtx, published, sendQueue, res, werr,
                   cret, wrote, taken>>

\* Close: c.wmtx.Unlock() and `return err`; in beginEventProcessing the result
\* is cerr, in setupIncoming it is dropped
CloseReturn ==
    /\ \E p \in Closers \cup {Reader, Setup} :
        /\ cpc[p] = "closeReturn"
        /\ cret' = [cret EXCEPT ![p] = cerr[p]]
        /\ cpc' = [cpc EXCEPT ![p] = IF p = Reader THEN "publish"
                                     ELSE IF p = Setup THEN "return"
                                     ELSE "done"]
    /\ wmtx' = Free
    /\ UNCHANGED <<vmVars, genVars, setupVars, closed, closeCalls, published, sendQueue,
                   res, cerr, werr, wrote, taken>>

\* Closed: lock, read c.closed, unlock
Closed ==
    /\ wmtx = Free
    /\ cpc[Observer] = "idle"
    /\ cret' = [cret EXCEPT ![Observer] = closed]
    /\ cpc' = [cpc EXCEPT ![Observer] = "done"]
    /\ UNCHANGED <<vmVars, genVars, setupVars, closed, wmtx, closeCalls, published,
                   sendQueue, res, cerr, werr, wrote, taken>>

\* SendNow: c.wmtx.Lock(), by its caller or by sendRoutine
SendNowLock ==
    /\ wmtx = Free
    /\ \E p \in {NowCaller, Routine} :
        /\ cpc[p] = IF p = Routine THEN "SendNow" ELSE "idle"
        /\ wmtx' = p
        /\ cpc' = [cpc EXCEPT ![p] = "write"]
    /\ UNCHANGED <<vmVars, genVars, setupVars, closed, closeCalls, published,
                   sendQueue, res, cerr, werr, cret, wrote, taken>>

\* SendNow: the check of c.closed, then c.w.WriteRecord(m), which may fail
SendNowWrite ==
    /\ \E p \in {NowCaller, Routine}, writeFails \in BOOLEAN :
        /\ cpc[p] = "write"
        /\ IF closed
           THEN /\ werr' = [werr EXCEPT ![p] = ErrConnectionClosed]
                /\ cpc' = [cpc EXCEPT ![p] = "SendNowReturn"]
                /\ wrote' = wrote
           ELSE /\ wrote' = [wrote EXCEPT ![p] = Append(@, closed)]
                /\ IF writeFails
                   THEN /\ werr' = [werr EXCEPT ![p] = WriteError]
                        /\ cpc' = [cpc EXCEPT ![p] = "closeUnlocked"]
                   ELSE /\ werr' = [werr EXCEPT ![p] = Nil]
                        /\ cpc' = [cpc EXCEPT ![p] = "SendNowReturn"]
    /\ UNCHANGED <<vmVars, genVars, setupVars, closed, wmtx, closeCalls, published,
                   sendQueue, res, cerr, cret, taken>>

\* SendNow after the failed write: publishClosingConnection unless cerr is
\* ErrAlreadyClosed, `return err`, and the deferred unlock
SendNowFailed ==
    /\ \E p \in {NowCaller, Routine} :
        /\ cpc[p] = "closeReturn"
        /\ published' = IF cerr[p] # ErrAlreadyClosed THEN Append(published, p)
                                                      ELSE published
        /\ IF p = Routine
           THEN cpc' = [cpc EXCEPT ![p] = "res"] /\ cret' = cret
           ELSE cpc' = [cpc EXCEPT ![p] = "done"]
                /\ cret' = [cret EXCEPT ![p] = werr[p]]
    /\ wmtx' = Free
    /\ UNCHANGED <<vmVars, genVars, setupVars, closed, closeCalls, sendQueue, res, cerr,
                   werr, wrote, taken>>

\* SendNow returns nil or "connection was closed"; the deferred unlock
SendNowReturn ==
    /\ \E p \in {NowCaller, Routine} :
        /\ cpc[p] = "SendNowReturn"
        /\ IF p = Routine
           THEN cpc' = [cpc EXCEPT ![p] = "res"] /\ cret' = cret
           ELSE cpc' = [cpc EXCEPT ![p] = "done"]
                /\ cret' = [cret EXCEPT ![p] = werr[p]]
    /\ wmtx' = Free
    /\ UNCHANGED <<vmVars, genVars, setupVars, closed, closeCalls, published, sendQueue,
                   res, cerr, werr, wrote, taken>>

\* sendRoutine: `b := <-c.sendQueue`
sendRoutineReceive ==
    /\ cpc[Routine] = "receive"
    /\ sendQueue # <<>>
    /\ taken' = Head(sendQueue)
    /\ sendQueue' = Tail(sendQueue)
    /\ cpc' = [cpc EXCEPT ![Routine] = "SendNow"]
    /\ UNCHANGED <<vmVars, genVars, setupVars, closed, wmtx, closeCalls, published, res,
                   cerr, werr, cret, wrote>>

\* sendRoutine: `b.res <- err`, then the next message, or break on an error
sendRoutineResult ==
    /\ cpc[Routine] = "res"
    /\ Len(res[taken]) < 1
    /\ res' = [res EXCEPT ![taken] = Append(@, werr[Routine])]
    /\ cpc' = [cpc EXCEPT ![Routine] =
                  IF werr[Routine] # Nil THEN "done" ELSE "receive"]
    /\ taken' = Nil
    /\ UNCHANGED <<vmVars, genVars, setupVars, closed, wmtx, closeCalls, published,
                   sendQueue, cerr, werr, cret, wrote>>

\* Send: c.wmtx.Lock(), the check of c.closed and c.wmtx.Unlock()
SendCheck ==
    /\ wmtx = Free
    /\ \E s \in Senders :
        /\ cpc[s] = "idle"
        /\ IF closed
           THEN /\ cret' = [cret EXCEPT ![s] = ErrConnectionClosed]
                /\ cpc' = [cpc EXCEPT ![s] = "done"]
           ELSE /\ cret' = cret
                /\ cpc' = [cpc EXCEPT ![s] = "enqueue"]
    /\ UNCHANGED <<vmVars, genVars, setupVars, closed, wmtx, closeCalls, published,
                   sendQueue, res, cerr, werr, wrote, taken>>

\* Send: `res := make(chan error, 1); c.sendQueue <- queuedMessage{m, res}`
SendEnqueue ==
    /\ Len(sendQueue) < QueueCap
    /\ \E s \in Senders :
        /\ cpc[s] = "enqueue"
        /\ sendQueue' = Append(sendQueue, s)
        /\ cpc' = [cpc EXCEPT ![s] = "wait"]
    /\ UNCHANGED <<vmVars, genVars, setupVars, closed, wmtx, closeCalls, published, res,
                   cerr, werr, cret, wrote, taken>>

\* Send: `return <-res`
SendResult ==
    /\ \E s \in Senders :
        /\ cpc[s] = "wait"
        /\ res[s] # <<>>
        /\ cret' = [cret EXCEPT ![s] = Head(res[s])]
        /\ res' = [res EXCEPT ![s] = Tail(@)]
        /\ cpc' = [cpc EXCEPT ![s] = "done"]
    /\ UNCHANGED <<vmVars, genVars, setupVars, closed, wmtx, closeCalls, published,
                   sendQueue, cerr, werr, wrote, taken>>

\* beginEventProcessing: `go c.sendRoutine()`, then the read loop
beginEventProcessing ==
    /\ cpc[Reader] = "idle" /\ cpc[Routine] = "idle"
    /\ cpc' = [cpc EXCEPT ![Reader] = "read", ![Routine] = "receive"]
    /\ UNCHANGED <<vmVars, genVars, setupVars, closed, wmtx, closeCalls, published,
                   sendQueue, res, cerr, werr, cret, wrote, taken>>

\* the read loop ends: c.r.Next() returned an error, or c.session is nil (a
\* message that is published changes nothing of the connection)
ReadLoopBreak ==
    /\ cpc[Reader] = "read"
    /\ werr' = [werr EXCEPT ![Reader] = "read loop error"]
    /\ cpc' = [cpc EXCEPT ![Reader] = "Close"]
    /\ UNCHANGED <<vmVars, genVars, setupVars, closed, wmtx, closeCalls, published,
                   sendQueue, res, cerr, cret, wrote, taken>>

\* (mutant) beginEventProcessing publishes whatever Close returned
ReadLoopPublishAlways ==
    /\ cpc[Reader] = "publish"
    /\ published' = Append(published, Reader)
    /\ cpc' = [cpc EXCEPT ![Reader] = "done"]
    /\ UNCHANGED <<vmVars, genVars, setupVars, closed, wmtx, closeCalls, sendQueue, res,
                   cerr, werr, cret, wrote, taken>>

\* beginEventProcessing after Close: publishClosingConnection unless cerr is
\* ErrAlreadyClosed
ReadLoopPublish ==
    /\ cpc[Reader] = "publish"
    /\ published' = IF cret[Reader] # ErrAlreadyClosed
                    THEN Append(published, Reader) ELSE published
    /\ cpc' = [cpc EXCEPT ![Reader] = "done"]
    /\ UNCHANGED <<vmVars, genVars, setupVars, closed, wmtx, closeCalls, sendQueue, res,
                   cerr, werr, cret, wrote, taken>>

-----------------------------------------------------------------------------
(* setupIncoming *)

ErrMsgExceededLimit == "message size exceeded limit"
ErrSetupTwice == "setup connection twice"
ErrSetupTimeout == "timeout while waiting for session message"
ReadError == "read error"
HandlerError == "pre-session handler error"

\* the first messages c.r.Next() may deliver: within c.msgSizeLimit or not
Messages == { [big |-> big] : big \in BOOLEAN }

\* setupIncoming: the goroutine that reads the first message and the timer
\* are started
setupIncoming ==
    /\ cpc[Setup] = "idle"
    /\ cpc' = [cpc EXCEPT ![Setup] = "select"]
    /\ UNCHANGED <<vmVars, genVars, setupVars, closed, wmtx, closeCalls,
                   published, sendQueue, res, cerr, werr, cret, wrote, taken>>

\* `case <-t.C`: the timer fires before the first message; c.Close() is next
setupTimeout ==
    /\ cpc[Setup] = "select"
    /\ werr' = [werr EXCEPT ![Setup] = ErrSetupTimeout]
    /\ cpc' = [cpc EXCEPT ![Setup] = "Close"]
    /\ UNCHANGED <<vmVars, genVars, setupVars, closed, wmtx, closeCalls,
                   published, sendQueue, res, cerr, cret, wrote, taken>>

\* `case msgbe := <-be`: c.r.Next() failed, or gave the first message, which
\* is too big (return without Close), comes to a connection that has its
\* session, or goes to HandlePreSessionIncomingMessage, which may fail
setupMessage ==
    /\ cpc[Setup] = "select"
    /\ \E readFails, handlerFails \in BOOLEAN, msg \in Messages :
        IF readFails
        THEN /\ werr' = [werr EXCEPT ![Setup] = ReadError]
             /\ cpc' = [cpc EXCEPT ![Setup] = "Close"]
             /\ cret' = cret /\ handled' = handled
        ELSE IF msg.big
        THEN /\ werr' = [werr EXCEPT ![Setup] = ErrMsgExceededLimit]
             /\ cret' = [cret EXCEPT ![Setup] = ErrMsgExceededLimit]
             /\ cpc' = [cpc EXCEPT ![Setup] = "done"]
             /\ handled' = handled
        ELSE IF session # Nil
        THEN /\ werr' = [werr EXCEPT ![Setup] = ErrSetupTwice]
             /\ cpc' = [cpc EXCEPT ![Setup] = "Close"]
             /\ cret' = cret /\ handled' = handled
        ELSE /\ handled' = Append(handled, msg)
             /\ IF handlerFails
                THEN /\ werr' = [werr EXCEPT ![Setup] = HandlerError]
                     /\ cpc' = [cpc EXCEPT ![Setup] = "Close"]
                     /\ cret' = cret
                ELSE /\ werr' = werr
                     /\ cret' = [cret EXCEPT ![Setup] = Nil]
                     /\ cpc' = [cpc EXCEPT ![Setup] = "done"]
    /\ UNCHANGED <<vmVars, genVars, session, closed, wmtx, closeCalls,
                   published, sendQueue, res, cerr, wrote, taken>>

\* `return err` after c.Close()
setupReturn ==
    /\ cpc[Setup] = "return"
    /\ cret' = [cret EXCEPT ![Setup] = werr[Setup]]
    /\ cpc' = [cpc EXCEPT ![Setup] = "done"]
    /\ UNCHANGED <<vmVars, genVars, setupVars, closed, wmtx, closeCalls,
                   published, sendQueue, res, cerr, werr, wrote, taken>>

\* a new connection, with or without its session, beside one ledger
InitSetup ==
    /\ store \in InitLedgers /\ store[A].nonce = 0 /\ store[B].nonce = 0
    /\ pc = "idle" /\ lid = 0 /\ txs = <<>> /\ idx = 1 /\ skipped = <<>>
    /\ staged = NewStagedState /\ txw = NewStagedState
    /\ err = "none" /\ ret = <<>> /\ storeBefore = store /\ outcomes = <<>>
    /\ layers = 0 /\ reqs = <<>> /\ panicked = "none"
    /\ genesis = <<>> /\ gens = 0
    /\ \E sess \in {Nil, Session} : newConnection(sess)

\* setupIncoming, beside a caller of Close and a reader of Closed
NextSetup ==
    \/ setupIncoming
    \/ setupTimeout
    \/ setupMessage
    \/ setupReturn
    \/ CloseLock
    \/ closeUnlocked
    \/ closeClose
    \/ CloseReturn
    \/ Closed

SpecSetup == InitSetup /\ [][NextSetup]_vars

\* a new connection beside one ledger
InitConn == Init /\ store[A].nonce = 0 /\ store[B].nonce = 0

NextConn ==
    \/ CloseLock
    \/ closeUnlocked
    \/ closeClose
    \/ CloseReturn
    \/ Closed
    \/ SendNowLock
    \/ SendNowWrite
    \/ SendNowFailed
    \/ SendNowReturn
    \/ sendRoutineReceive
    \/ sendRoutineResult
    \/ SendCheck
    \/ SendEnqueue
    \/ SendResult
    \/ beginEventProcessing
    \/ ReadLoopBreak
    \/ ReadLoopPublish

SpecConn == InitConn /\ [][NextConn]_vars

-----------------------------------------------------------------------------
(* Properties of the batch path *)

Last(seq) == seq[Len(seq)]

\* an iteration of the Apply loop has just been taken
LoopStep == pc = "loop" /\ Len(outcomes') = Len(outcomes) + 1

\* the fields of a raw wallet spend
IsSpend(raw) == Len(raw) = 7 /\ raw[1] = 0 /\ raw[3] = SpendMethod

\* C1: whenever Apply returns an error, the persisted store read after the call
\* equals the persisted store before the call
C1_BatchAtomicity == (pc = "done" /\ err # "none") => store = storeBefore

\* an Apply that failed in the final flush or the commit, after transactions of
\* the batch had changed accounts in the Staged State
C1_Witness ==
    /\ pc = "done" /\ err = "internal"
    /\ Len(outcomes) = Len(txs)
    /\ \A i \in DOMAIN outcomes : outcomes[i].kind \notin {"exec_internal", "apply_err"}
    /\ \E a \in DOMAIN staged : staged[a] # storeBefore[a]

RECURSIVE Rejected(_, _)
\* the transactions whose iteration ended at the parse or the nonce check
Rejected(batch, outs) ==
    IF batch = <<>> \/ outs = <<>> THEN <<>>
    ELSE (IF Head(outs).kind \in {"parse_err", "nonce"} THEN <<Head(batch)>> ELSE <<>>)
         \o Rejected(Tail(batch), Tail(outs))

\* C2: when Apply succeeds, the returned list is exactly the subsequence of the
\* batch that failed parse or the nonce check, in order; no transaction that
\* reached Exec is in it
C2_SkippedList ==
    (pc = "done" /\ err = "none") =>
        /\ Len(outcomes) = Len(txs)
        /\ ret = Rejected(txs, outcomes)

\* a successful Apply whose first transaction failed in Exec and whose second
\* failed the nonce check: only the second is returned
C2_Witness ==
    /\ pc = "done" /\ err = "none" /\ Len(txs) = 2
    /\ outcomes[1].kind = "exec_err" /\ outcomes[2].kind = "nonce"
    /\ ret = <<txs[2]>>

\* C3: a transaction whose nonce differs from the principal's next nonce, as
\* seen through the Staged State, is skipped, never executed, and changes
\* neither the Staged State nor the store
C3_NonceMismatchSkipped ==
    [][(LoopStep /\ Last(outcomes').nonce # Last(outcomes').next) =>
         /\ Last(outcomes').kind = "nonce"
         /\ skipped' = Append(skipped, txs[idx])
         /\ staged' = staged /\ txw' = txw /\ store' = store
         /\ pc' = "loop"]_vars

\* a committed batch whose second transaction failed the nonce check against
\* the nonce staged by the first
C3_Witness ==
    /\ pc = "done" /\ err = "none" /\ Len(txs) = 2
    /\ outcomes[1].kind = "exec_ok" /\ outcomes[2].kind = "nonce"
    /\ outcomes[2].next = outcomes[1].next + 1
    /\ ret = <<txs[2]>>

\* C4: a transaction for which parse returns an error is skipped, the loop
\* continues, and the Staged State and the store are as before
C4_ParseErrorSkipped ==
    [][(LoopStep /\ (\/ Last(outcomes').kind = "parse_err"
                     \/ parse(LoaderView(staged, store), FALSE, txs[idx], 1).kind = "err")) =>
         /\ Last(outcomes').kind = "parse_err"
         /\ skipped' = Append(skipped, txs[idx])
         /\ staged' = staged /\ txw' = txw /\ store' = store
         /\ pc' = "loop" /\ idx' = idx + 1]_vars

\* a committed batch whose first transaction failed to parse and whose second
\* was executed
C4_Witness ==
    /\ pc = "done" /\ err = "none" /\ Len(txs) = 2
    /\ outcomes[1].kind = "parse_err" /\ outcomes[2].kind = "exec_ok"
    /\ ret = <<txs[1]>> /\ store # storeBefore

\* two spends of one spawned account that the account can pay, with nonces N
\* and N + 1 where N is the account's next nonce before the batch
NoncePair(first, second) ==
    /\ IsSpend(first) /\ IsSpend(second)
    /\ first[2] = second[2] /\ first[2] \in Addr
    /\ storeBefore[first[2]].template = WalletTemplate
    /\ first[4] = NextNonce(storeBefore[first[2]])
    /\ second[4] = first[4] + 1
    /\ first[5] # first[2] /\ second[5] # second[2]
    /\ first[6] + second[6] <= storeBefore[first[2]].balance

\* no read of the store failed while the batch was parsed
NoLoadFailure == \A i \in DOMAIN outcomes : outcomes[i].msg # LoadFailure

\* C5: when the store does not fail, in the order N, N + 1 both transactions
\* are executed, none is skipped and the committed nonce counter is N + 2; in
\* the order N + 1, N the first is skipped, the second applied, and the
\* committed counter is N + 1
C5_NonceOrdering ==
    (pc = "done" /\ err = "none" /\ NoLoadFailure /\ Len(txs) = 2) =>
        /\ NoncePair(txs[1], txs[2]) =>
              /\ outcomes[1].kind = "exec_ok" /\ outcomes[2].kind = "exec_ok"
              /\ ret = <<>>
              /\ NextNonce(store[txs[1][2]]) = txs[1][4] + 2
        /\ NoncePair(txs[2], txs[1]) =>
              /\ outcomes[1].kind = "nonce" /\ outcomes[2].kind = "exec_ok"
              /\ ret = <<txs[1]>>
              /\ NextNonce(store[txs[1][2]]) = txs[2][4] + 1

\* the pair N, N + 1 in that order, committed
C5_Witness ==
    /\ pc = "done" /\ err = "none" /\ NoLoadFailure /\ Len(txs) = 2
    /\ NoncePair(txs[1], txs[2])
    /\ NextNonce(store[txs[1][2]]) = NextNonce(storeBefore[txs[1][2]]) + 2


\* C6 as stated: a transaction whose Exec fails with a non-internal error
\* leaves no change in the committed store; so a committed batch in which no
\* transaction was executed successfully leaves the store as it was
C6_FailedExecDiscarded ==
    (pc = "done" /\ err = "none"
        /\ \A i \in DOMAIN outcomes : outcomes[i].kind # "exec_ok")
    => store = storeBefore

\* C6 amended: after a non-internal Exec error the loop continues and the
\* transaction is not skipped, but ctx.Apply(ss) still runs: the principal's
\* account becomes a pending mutation of the Staged State
C6_FailedExecFlushed ==
    [][(LoopStep /\ Last(outcomes').kind = "exec_err") =>
         /\ pc' = "loop" /\ idx' = idx + 1
         /\ skipped' = skipped
         /\ txs[idx][2] \in DOMAIN staged'
         /\ store' = store]_vars

\* a committed one-transaction batch whose Exec failed and whose principal
\* was persisted all the same, stamped with the batch's layer
C6_Witness ==
    /\ pc = "done" /\ err = "none" /\ Len(txs) = 1
    /\ outcomes[1].kind = "exec_err"
    /\ ret = <<>>
    /\ store[txs[1][2]] # storeBefore[txs[1][2]]
    /\ store[txs[1][2]].layer = lid

\* the Apply call is over: it returned or it panicked
ApplyOver == pc \in {"done", "panic"}

\* C7 as stated: when the only failures of a batch are malformed
\* transactions, nonce mismatches and non-internal execution errors, Apply
\* processes every transaction and returns without error
C7_BatchProgress ==
    (ApplyOver /\ err = "none" /\ NoLoadFailure) =>
        /\ pc = "done"
        /\ Len(outcomes) = Len(txs)
        /\ \A i \in DOMAIN outcomes :
              outcomes[i].kind \in {"parse_err", "nonce", "exec_ok", "exec_err"}

\* C8 as stated: a failure to load the principal aborts the batch with an
\* error and the transaction is not put in the skipped list
C8_LoadFailureAborts ==
    \A i \in DOMAIN outcomes :
        outcomes[i].msg = LoadFailure =>
            /\ pc = "done" /\ err # "none"
            /\ \A j \in DOMAIN skipped : skipped[j] # txs[i]

-----------------------------------------------------------------------------
(* Properties of the validation path *)

\* C9 as stated: Verify without a successful Parse never crashes
C9_VerifyNeverPanics == panicked # VerifyPanic

\* C9 amended: Verify on a Request whose ctx is nil panics and leaves the
\* Request and the store as they were; a Verify result exists only for a
\* Request that a Parse completed on, and is the Template's check of raw
C9_VerifyPanicsWithoutParse ==
    [][/\ (panicked = "none" /\ panicked' = VerifyPanic) =>
             /\ \E r \in DOMAIN reqs : reqs[r].ctx = NilCtx
             /\ reqs' = reqs /\ store' = store
       /\ \A r \in DOMAIN reqs' :
             reqs'[r].verified # "none" =>
                /\ reqs'[r].ctx # NilCtx
                /\ (reqs'[r].verified = "true")
                      = TemplateVerify(reqs'[r].ctx, reqs'[r].raw)
       /\ \A r \in DOMAIN reqs :
             (reqs[r].ctx = NilCtx /\ reqs'[r].ctx # NilCtx) => reqs'[r].parsed = "ok"]_vars

\* Verify panicked on a Request whose only Parse call had failed
C9_Witness ==
    /\ panicked = VerifyPanic
    /\ \E r \in DOMAIN reqs :
          /\ reqs[r].ctx = NilCtx
          /\ reqs[r].parsed \notin {"none", "ok"}

\* C10: no step of a Validation request changes the persisted store or
\* leaves anything staged or buffered for it
C10_ValidationReadOnly ==
    [][(reqs' # reqs \/ panicked' # panicked) =>
         /\ store' = store
         /\ staged' = NewStagedState /\ txw' = NewStagedState]_vars

\* two requests interleaved: one parsed and verified true, the other parsed
\* and verified false after a failed Parse call
C10_Witness ==
    /\ Len(reqs) = 2
    /\ \E r, q \in DOMAIN reqs :
          /\ r # q
          /\ reqs[r].verified = "true"
          /\ reqs[q].verified = "false"
          /\ reqs[q].parsed \notin {"none", "ok"}
    /\ store = storeBefore

-----------------------------------------------------------------------------
(* Properties of ApplyGenesis *)

\* the addresses a genesis list names
Named(g) == { g[i].address : i \in DOMAIN g }

\* C11: after ApplyGenesis returns without error, a read of each given address
\* returns exactly the given record (balance, nonce, template, state, layer),
\* and every address the call does not name keeps its record; so a repeated
\* ApplyGenesis overwrites what it names and nothing else
C11_GenesisVerbatim ==
    (pc = "gendone" /\ err = "none") =>
        /\ \A i \in DOMAIN genesis :
              Latest(store, genesis[i].address) = genesis[i].account
        /\ \A a \in Addr \ Named(genesis) : store[a] = storeBefore[a]

\* a second ApplyGenesis has overwritten one account, with a record that has a
\* nonce and a layer of its own, and left the other account, not empty, alone
C11_Witness ==
    /\ pc = "gendone" /\ err = "none" /\ gens = 2
    /\ Len(genesis) = 1
    /\ genesis[1].account.layer = 1 /\ genesis[1].account.nonce = 2
    /\ store[genesis[1].address] # storeBefore[genesis[1].address]
    /\ \A a \in Addr \ Named(genesis) : store[a] # EmptyAccount

\* C12: when ApplyGenesis returns an error (vm.db.Tx, a write or the commit
\* failed), no account of that call is visible in the store
C12_GenesisAllOrNothing ==
    (pc = "gendone" /\ err # "none") => store = storeBefore

\* the second write of a genesis list failed after the first was buffered, and
\* the first record differs from what the store holds for its address
C12_Witness ==
    /\ pc = "gendone" /\ err = "inserting genesis account"
    /\ idx = 2
    /\ genesis[1].account # store[genesis[1].address]

-----------------------------------------------------------------------------
(* Further properties of the batch path *)

\* C13: after a successful Apply(lid, txs), every account with a pending
\* mutation in the Staged State is persisted as staged with layer lid, and
\* every other account keeps its previous persisted record, layer included
C13_LayerStamping ==
    (pc = "done" /\ err = "none") =>
        \A a \in Addr :
            IF a \in DOMAIN staged
            THEN store[a] = [staged[a] EXCEPT !.layer = lid]
            ELSE store[a] = storeBefore[a]

\* a successful Apply changed A only: A, last updated in another layer, now
\* carries lid, and B keeps its record
C13_Witness ==
    /\ pc = "done" /\ err = "none"
    /\ DOMAIN staged = {A}
    /\ storeBefore[A].layer # lid /\ store[A].layer = lid
    /\ store[A].nonce # storeBefore[A].nonce
    /\ store[B] = storeBefore[B]

\* a raw spawn: version 0, method 0, with all its fields
IsSpawn(raw) == Len(raw) = 7 /\ raw[1] = 0 /\ raw[3] = 0

\* C14 (as claimed): a transaction whose template address is not in the
\* registry never crashes; its iteration ends with a parse error (a skip) also
\* when it is a spawn sent by an account without a recorded template
C14_UnknownTemplateSkipped ==
    \A i \in DOMAIN outcomes :
        (IsSpawn(txs[i]) /\ registryGet(txs[i][4]) = Nil) =>
            outcomes[i].kind = "parse_err"

\* the account the loader returns for the principal of the current transaction
Principal == StagedGet(staged, store, txs[idx][2])

C16_RespawnFailsSpawned ==
    \A i, j \in DOMAIN outcomes :
        (i < j /\ IsSpawn(txs[i]) /\ txs[j] = txs[i] /\ outcomes[i].kind = "exec_ok")
            => outcomes[j].msg = ErrSpawned

\* C16 (amended): a spawn of a registered template whose principal is already
\* spawned and whose nonce is below the account's next nonce (so every spawn
\* submitted again after it was applied) is skipped by the nonce check, or by
\* a failed load of the principal, before Exec could report a second spawn;
\* the Staged State, so the template and the state blob, stays as it was
C16_RespawnSkippedByNonce ==
    [][(/\ LoopStep
        /\ IsSpawn(txs[idx]) /\ registryGet(txs[idx][4]) # Nil
        /\ Principal.template # NoTemplate
        /\ txs[idx][5] < NextNonce(Principal))
       => (/\ \/ Last(outcomes').kind = "nonce"
              \/ Last(outcomes').msg = LoadFailure
           /\ Last(outcomes').msg # ErrSpawned
           /\ skipped' = Append(skipped, txs[idx])
           /\ staged' = staged /\ store' = store
           /\ pc' = "loop")]_vars

\* Apply succeeded over a batch of one spawn twice: the first spawned B, the
\* second failed the nonce check and is the one returned; B keeps the template
\* and the state of the first
C16_Witness ==
    /\ pc = "done" /\ err = "none"
    /\ Len(txs) = 2 /\ IsSpawn(txs[1]) /\ txs[2] = txs[1]
    /\ outcomes[1].kind = "exec_ok" /\ outcomes[2].kind = "nonce"
    /\ ret = <<txs[2]>>
    /\ storeBefore[txs[1][2]].template = NoTemplate
    /\ store[txs[1][2]].template = txs[1][4]
    /\ store[txs[1][2]].state = txs[1][6]
    /\ store[txs[1][2]].nonce = 1

RECURSIVE RunLoop(_, _, _, _, _, _)
\* the loop of Apply from transaction i on, as a function of the ledger, the
\* batch and the store faults the log shows (a failed load of the principal,
\* a failed load in Exec, a failed ctx.Apply)
RunLoop(ss, sk, db, batch, outs, i) ==
    IF i > Len(batch) THEN [end |-> "flush", ss |-> ss, skipped |-> sk]
    ELSE IF i > Len(outs) THEN [end |-> "running", ss |-> ss, skipped |-> sk]
    ELSE LET r == LoopBody(ss, db, batch[i], outs[i].msg = LoadFailure,
                           outs[i].kind = "exec_internal",
                           outs[i].kind = "apply_err")
         IN  IF r.next = "continue"
             THEN RunLoop(r.ss, IF r.skip THEN Append(sk, batch[i]) ELSE sk,
                          db, batch, outs, i + 1)
             ELSE [end |-> r.next, ss |-> r.ss, skipped |-> sk]

\* C17: the result of an Apply call (persisted ledger, returned list, error) is
\* a function of the ledger it started from, the layer, the batch and the
\* store faults, whatever the order in which the flush took the changed
\* accounts: without fault, the ledger is the start ledger overwritten by the
\* stamped accounts the loop changed and the list is what the loop skipped;
\* with a fault that aborts, the ledger is the start ledger and the error is
\* internal
C17_ApplyDeterministic ==
    (pc = "done" /\ err # "tx") =>
        LET run == RunLoop(NewStagedState, <<>>, storeBefore, txs, outcomes, 1)
        IN  IF run.end = "flush" /\ err = "none"
            THEN /\ store = [a \in Addr |->
                                IF a \in DOMAIN run.ss
                                THEN [run.ss[a] EXCEPT !.layer = lid]
                                ELSE storeBefore[a]]
                 /\ ret = run.skipped
            ELSE /\ run.end \in {"flush", "return"}
                 /\ store = storeBefore /\ ret = <<>> /\ err = "internal"

\* a successful Apply whose flush had two changed accounts to iterate, in
\* either order, and which skipped a transaction
C17_Witness ==
    /\ pc = "done" /\ err = "none"
    /\ Cardinality(DOMAIN staged) = 2
    /\ \A a \in DOMAIN staged : store[a] # storeBefore[a]
    /\ Len(ret) = 1

-----------------------------------------------------------------------------
(* Further properties of the validation path *)

\* C19 (as claimed): the error Request.Parse returns for a version tag other
\* than 0 is a Malformed error (it is, or wraps, ErrMalformed)
C19_UnsupportedVersionMalformed ==
    \A r \in DOMAIN reqs :
        reqs[r].parsed = "unsupported version" => reqs[r].class = "malformed"

-----------------------------------------------------------------------------
(* Properties of the connection *)

\* the goroutines that call Close, and whether that call has returned
CloseCallers == Closers \cup {Reader}
CloseReturned(p) ==
    IF p = Reader THEN cpc[p] \in {"publish", "done"} ELSE cpc[p] = "done"

\* C18: in every interleaving of Close, Closed, SendNow, Send and the read
\* loop, c.close.Close() is called at most once; the call of closeUnlocked
\* that made it gets the underlying result, and so does the Close around it;
\* every other Close that has returned, returned ErrAlreadyClosed; once a
\* Close has returned the flag is set and Closed reports true; the flag never
\* goes back to false
C18_CloseOnce ==
    /\ [](/\ Len(closeCalls) <= 1
          /\ \A p \in Procs :
                (closeCalls # <<>> /\ closeCalls[1].by = p) =>
                    cerr[p] = closeCalls[1].result
          /\ \A p \in CloseCallers :
                CloseReturned(p) =>
                    /\ closed /\ Len(closeCalls) = 1
                    /\ cret[p] = IF closeCalls[1].by = p
                                 THEN closeCalls[1].result
                                 ELSE ErrAlreadyClosed)
    /\ [][/\ closed => closed'
          /\ (/\ cpc[Observer] = "idle" /\ cpc'[Observer] = "done"
              /\ \E p \in CloseCallers : CloseReturned(p))
             => cret'[Observer] = TRUE]_vars

\* Close and the read loop both closed: one got the error of the underlying
\* closer, the other ErrAlreadyClosed, and Closed reported true afterwards
C18_Witness ==
    /\ \A p \in CloseCallers : CloseReturned(p)
    /\ \E p \in Closers : cret[p] = CloseError
    /\ cret[Reader] = ErrAlreadyClosed
    /\ cpc[Observer] = "done" /\ cret[Observer] = TRUE
    /\ Len(closeCalls) = 1

\* C20 (as claimed), on a finite run: after sendRoutine has exited there is
\* no Send caller waiting on its result channel for a message that is still
\* in the send queue, which nobody receives from any more
C20_NoSenderBlocked ==
    \A s \in Senders :
        ~(/\ cpc[Routine] = "done"
          /\ cpc[s] = "wait" /\ res[s] = <<>>
          /\ \E i \in DOMAIN sendQueue : sendQueue[i] = s)

\* C21: publishClosingConnection is called at most once, and then by the
\* goroutine whose close attempt called c.close.Close() (a failed SendNow or
\* the end of the read loop; an explicit Close publishes nothing); no
\* WriteRecord is made with c.closed set, and a SendNow that finds it set
\* ends with "connection was closed" and writes nothing
C21_PublishedOnce ==
    /\ [](/\ Len(published) <= 1
          /\ published # <<>> =>
                (closeCalls # <<>> /\ published[1] = closeCalls[1].by)
          /\ \A p \in Procs : \A i \in DOMAIN wrote[p] : wrote[p][i] = FALSE)
    /\ [][\A p \in {NowCaller, Routine} :
            (closed /\ cpc[p] = "write" /\ cpc'[p] # "write") =>
                /\ cpc'[p] = "SendNowReturn"
                /\ werr'[p] = ErrConnectionClosed
                /\ wrote' = wrote]_vars

\* the write of sendRoutine failed, closed the connection and published; the
\* read loop then ended with ErrAlreadyClosed and published nothing; a later
\* SendNow returned "connection was closed" without a WriteRecord
C21_Witness ==
    /\ published = <<Routine>>
    /\ cpc[Reader] = "done" /\ cret[Reader] = ErrAlreadyClosed
    /\ cpc[NowCaller] = "done" /\ cret[NowCaller] = ErrConnectionClosed
    /\ wrote[NowCaller] = <<>>
    /\ \E p \in Closers : cpc[p] = "done" /\ cret[p] = ErrAlreadyClosed

-----------------------------------------------------------------------------
(* Properties of setupIncoming *)

\* C22 (as claimed): whenever setupIncoming has returned an error the
\* connection is closed; when it has returned nil the connection is open
\* (unless a caller of Close closed it meanwhile) and the pre-session handler
\* was called exactly once, with the first message
C22_SetupClosesOnError ==
    cpc[Setup] = "done" =>
        IF cret[Setup] # Nil
        THEN closed
        ELSE /\ closed => closeCalls[1].by \in Closers
             /\ Len(handled) = 1 /\ ~handled[1].big

====
